---- MODULE Spec2Model ----
(***************************************************************************)
(* Model of scripts/apm_test_reference.py: a Modal service class whose     *)
(* lifecycle hooks (init, finish) and request handler (process) are        *)
(* instrumented with ddtrace spans and structlog records.                  *)
(*                                                                         *)
(* The container runs the hooks and up to max_inputs invocations of        *)
(* process on one asyncio event loop.  A coroutine runs without            *)
(* interruption from one await to the next, so every action below is one   *)
(* such run: the code of a handler from the point where it is (re)started  *)
(* to the point where it suspends or finishes.                             *)
(***************************************************************************)
EXTENDS Integers, Sequences, FiniteSets, TLC

(***************************************************************************)
(* Bounds of the model.                                                    *)
(***************************************************************************)
\* number of process invocations the platform delivers to the container
NumInv == 2
\* number of invocations in which a call or an awaited delay may raise
MaxFaulty == 1

\* @concurrent(max_inputs=8)
max_inputs == 8

Tasks == 1..NumInv
\* emitter 0 is the container's own task, which runs init and finish
Hook == 0
Emitters == {Hook} \cup Tasks

app_name == "modal-apm-test"

\* the requests the platform delivers: (document_id, strategy)
Requests == {<<"doc-1", "mineru-vl">>, <<"doc-2", "dots-ocr">>}

None == 0
NoExc == [type |-> "none", at |-> "none"]

VARIABLES
    phase,      \* container lifecycle: "cold", "warm", "stopped", "failed"
    pc,         \* pc[t]: where invocation t is: "idle", "render_sleep", "llm_sleep", "done"
    frame,      \* frame[e]: local variables of the handler running on emitter e
    spans,      \* the spans created so far, by span id
    ctxvar,     \* the tracer's context variable: last activated span per context
    rand,       \* rand[e]: identifiers drawn so far on emitter e
    stdout,     \* stdout[e]: the log records emitter e printed, in order
    events,     \* events[e]: what emitter e did, in order (observation history)
    writer,     \* the tracer's writer: spans queued for export, spans exported, shut down
    outcome,    \* outcome[e]: what the caller of the handler on e observed
    faulty,     \* the invocations in which something raised
    strategies, \* self.strategies
    environ     \* os.environ of the container

vars == <<phase, pc, frame, spans, ctxvar, rand, stdout, events, writer, outcome,
          faulty, strategies, environ>>

(***************************************************************************)
(* Small helpers.                                                          *)
(***************************************************************************)
Digit == <<"0", "1", "2", "3", "4", "5", "6", "7", "8", "9">>

\* str(n) of a non-negative integer: its decimal digits
RECURSIVE str(_)
str(n) == IF n < 10 THEN Digit[n + 1] ELSE str(n \div 10) \o Digit[(n % 10) + 1]

\* os.getenv(key, default)
getenv(env, key, default) == IF key \in DOMAIN env THEN env[key] ELSE default

\* d[key] = value on a dict
Put(d, key, value) == (key :> value) @@ d

EmptyDict == <<>>

\* the key under which a log record in progress keeps the order its keys were set in
Order == "__keys__"

\* event_dict[key] = value: a dict keeps its keys in insertion order
SetItem(d, key, value) ==
    LET order == IF Order \in DOMAIN d THEN d[Order] ELSE <<>>
    IN (key :> value)
       @@ (Order :> IF key \in DOMAIN d THEN order ELSE Append(order, key))
       @@ d

\* dict(**kw): the keyword arguments of a call become the members of a dict,
\* in the order they are written in the call
RECURSIVE Dict(_)
Dict(items) ==
    IF Len(items) = 0 THEN EmptyDict
    ELSE SetItem(Dict(SubSeq(items, 1, Len(items) - 1)),
                 items[Len(items)][1], items[Len(items)][2])

\* json.dumps(event_dict): the members, written in insertion order
dumps(d) ==
    [json |-> [k \in DOMAIN d \ {Order} |-> d[k]],
     keys |-> IF Order \in DOMAIN d THEN d[Order] ELSE <<>>]

\* the machine state the calls of one run read and write
Machine == [frame |-> frame, spans |-> spans, ctxvar |-> ctxvar, rand |-> rand,
            stdout |-> stdout, events |-> events, writer |-> writer,
            strategies |-> strategies, environ |-> environ]

Observe(m, e, ev) == [m EXCEPT !.events[e] = Append(@, ev)]

(***************************************************************************)
(* ddtrace: the tracer.                                                    *)
(***************************************************************************)
\* the active span kept in one process-wide slot
ContextKeyShared(e) == Hook

\* The tracer keeps the active span in a contextvars.ContextVar.  Every
\* asyncio task runs in its own copy of the context, so the slot a handler
\* reads and writes is the one of the task it runs on.
ContextKey(e) == e

\* an active() that keeps returning the last activated span after it finished
UnfinishedNoWalk(sp, id) == id

\* the context provider's active(): the last activated span, or its nearest
\* ancestor that is not finished yet, or None
RECURSIVE Unfinished(_, _)
Unfinished(sp, id) ==
    IF id = None THEN None
    ELSE IF sp[id].finished THEN Unfinished(sp, sp[id].parent)
    ELSE id

current_span(m, e) == Unfinished(m.spans, m.ctxvar[ContextKey(e)])

\* Identifiers are drawn at random from 64 bits and are distinct; the model
\* draws the j-th next identifier of emitter e from e's own residue class.
NewId(m, e, j) == (m.rand[e] + j) * (NumInv + 1) + e + 1

\* tracer.trace(name, service=app_name, span_type=...) entered by `with ... as bind`:
\* a child of the active span of the caller's context (a new trace if there is
\* none), activated in that context
trace(m, e, name, span_type, bind) ==
    LET parent == current_span(m, e)
        id == NewId(m, e, 0)
        sp == [name |-> name, service |-> app_name, span_type |-> span_type,
               span_id |-> id,
               trace_id |-> IF parent = None THEN NewId(m, e, 1)
                            ELSE m.spans[parent].trace_id,
               parent |-> parent, owner |-> e, tags |-> EmptyDict,
               metrics |-> EmptyDict, error |-> 0, finished |-> FALSE]
        m1 == [m EXCEPT !.spans = (id :> sp) @@ @,
                        !.ctxvar[ContextKey(e)] = id,
                        !.rand[e] = @ + (IF parent = None THEN 2 ELSE 1),
                        !.frame[e][bind] = id,
                        !.frame[e].scopes = Append(@, id)]
    IN Observe(m1, e, [op |-> "open", id |-> id])

\* span.set_tag(key, value) on the span held in local variable `var`
set_tag(m, e, var, key, value) ==
    [m EXCEPT !.spans[m.frame[e][var]].tags = Put(@, key, value)]

\* span.set_metric(key, value)
set_metric(m, e, var, key, value) ==
    [m EXCEPT !.spans[m.frame[e][var]].metrics = Put(@, key, value)]

\* a trace is handed to the writer when its last span finishes
TraceOf(sp, id) == {s \in DOMAIN sp : sp[s].trace_id = sp[id].trace_id}

\* a span_exit that finishes the outermost span the handler holds
span_exit_outer(m, e, exc) ==
    LET sc == m.frame[e].scopes
        id == sc[1]
        sp1 == [m.spans EXCEPT ![id].finished = TRUE]
        m1 == [m EXCEPT !.spans = sp1, !.frame[e].scopes = Tail(sc)]
    IN Observe(m1, e, [op |-> "close", id |-> id])

\* Span.__exit__ of the innermost `with` the handler is in: records the
\* exception the block is left with, if any, and finishes the span
span_exit(m, e, exc) ==
    LET sc == m.frame[e].scopes
        id == sc[Len(sc)]
        sp1 == [m.spans EXCEPT ![id].finished = TRUE,
                               ![id].error = IF exc = NoExc THEN @ ELSE 1,
                               ![id].tags = IF exc = NoExc THEN @
                                            ELSE Put(@, "error.type", exc.type)]
        done == \A s \in TraceOf(sp1, id) : sp1[s].finished
        m1 == [m EXCEPT !.spans = sp1,
                        !.frame[e].scopes = SubSeq(sc, 1, Len(sc) - 1),
                        !.writer.queue = IF done THEN @ \cup TraceOf(sp1, id) ELSE @]
    IN Observe(m1, e, [op |-> "close", id |-> id])

\* tracer.flush(): the writer sends what it has queued
flush(m, e) ==
    LET m1 == [m EXCEPT !.writer.sent = @ \cup m.writer.queue,
                        !.writer.queue = {}]
    IN Observe(m1, e, [op |-> "flush"])

\* tracer.shutdown(): a last flush, then the writer is stopped
shutdown(m, e) ==
    LET m1 == [m EXCEPT !.writer.sent = @ \cup m.writer.queue,
                        !.writer.queue = {},
                        !.writer.running = FALSE]
    IN Observe(m1, e, [op |-> "shutdown"])

(***************************************************************************)
(* structlog: the processors and the logger.                               *)
(***************************************************************************)
logger_name == "apm_test_reference"

\* add_modal_context with the region read from the variable of the line above
add_modal_context_copied(m, e, method_name, event_dict) ==
    SetItem(event_dict, "modal",
        [is_remote |-> getenv(m.environ, "MODAL_IS_REMOTE", "0"),
         environment |-> getenv(m.environ, "MODAL_ENVIRONMENT", "unknown"),
         region |-> getenv(m.environ, "MODAL_ENVIRONMENT", "unknown"),
         task_id |-> getenv(m.environ, "MODAL_TASK_ID", "unknown"),
         image_id |-> getenv(m.environ, "MODAL_IMAGE_ID", "unknown")])

\* add_modal_context
add_modal_context(m, e, method_name, event_dict) ==
    SetItem(event_dict, "modal",
        [is_remote |-> getenv(m.environ, "MODAL_IS_REMOTE", "0"),
         environment |-> getenv(m.environ, "MODAL_ENVIRONMENT", "unknown"),
         region |-> getenv(m.environ, "MODAL_REGION", "unknown"),
         task_id |-> getenv(m.environ, "MODAL_TASK_ID", "unknown"),
         image_id |-> getenv(m.environ, "MODAL_IMAGE_ID", "unknown")])

\* add_datadog_context with the two identifiers taken from the wrong attributes
add_datadog_context_swapped(m, e, method_name, event_dict) ==
    LET cur == current_span(m, e)
    IN IF cur # None
       THEN SetItem(event_dict, "dd",
                [trace_id |-> str(m.spans[cur].span_id),
                 span_id |-> str(m.spans[cur].trace_id),
                 service |-> m.spans[cur].service])
       ELSE event_dict

\* add_datadog_context
add_datadog_context(m, e, method_name, event_dict) ==
    LET cur == current_span(m, e)
    IN IF cur # None
       THEN SetItem(event_dict, "dd",
                [trace_id |-> str(m.spans[cur].trace_id),
                 span_id |-> str(m.spans[cur].span_id),
                 service |-> m.spans[cur].service])
       ELSE event_dict

\* the chain with the trace context attached before the runtime context
processors_dd_first ==
    <<"add_log_level", "add_logger_name", "TimeStamper", "StackInfoRenderer",
      "add_datadog_context", "add_modal_context", "format_exc_info", "JSONRenderer">>

\* structlog.configure(processors=[...]): the chain, in order
processors ==
    <<"add_log_level", "add_logger_name", "TimeStamper", "StackInfoRenderer",
      "add_modal_context", "add_datadog_context", "format_exc_info", "JSONRenderer">>

\* one processor applied to the record in progress
Processor(p, m, e, method_name, event_dict) ==
    CASE p = "add_log_level" -> SetItem(event_dict, "level", method_name)
      [] p = "add_logger_name" -> SetItem(event_dict, "logger", logger_name)
      [] p = "TimeStamper" -> SetItem(event_dict, "timestamp", "iso")
      [] p = "StackInfoRenderer" -> event_dict
      [] p = "add_modal_context" -> add_modal_context(m, e, method_name, event_dict)
      [] p = "add_datadog_context" -> add_datadog_context(m, e, method_name, event_dict)
      [] p = "format_exc_info" -> event_dict
      [] p = "JSONRenderer" -> dumps(event_dict)

RECURSIVE Pipeline(_, _, _, _, _)
Pipeline(i, m, e, method_name, event_dict) ==
    IF i > Len(processors) THEN event_dict
    ELSE Pipeline(i + 1, m, e, method_name,
                  Processor(processors[i], m, e, method_name, event_dict))

\* logger.info(event, **kw): the record starts as the keyword arguments, the
\* event is set after them, and the record goes through the chain and is printed
info(m, e, event, kw) ==
    LET line == Pipeline(1, m, e, "info", SetItem(Dict(kw), "event", event))
        m1 == [m EXCEPT !.stdout[e] = Append(@, line)]
    IN Observe(m1, e, [op |-> "log", n |-> Len(m1.stdout[e])])

(***************************************************************************)
(* Running handler code.                                                   *)
(*                                                                         *)
(* The straight-line code between two awaits is a list of calls, each with *)
(* the source line it stands on.  A run executes the list in order; the    *)
(* call with index f (0: none) raises instead of acting, and the rest of   *)
(* the list is skipped.                                                    *)
(***************************************************************************)
NewFrame ==
    [document_id |-> "", strategy |-> "", root |-> None, render_span |-> None,
     llm_span |-> None, span |-> None, is_slow_render |-> FALSE, render_time |-> 0,
     is_slow_llm |-> FALSE, llm_time |-> 0, scopes |-> <<>>, exc |-> NoExc]

\* the calls into the tracer and the logger, which can fail
Instrumentation == {"trace", "set_tag", "set_metric", "info"}

FaultPoints(ops) == {0} \cup {i \in 1..Len(ops) : ops[i].op \in Instrumentation}

\* an exception starts to propagate in the handler on e
Raise(m, e, exc) ==
    Observe([m EXCEPT !.frame[e].exc = exc], e, [op |-> "throw", exc |-> exc])

\* one call of the list
Do(m, e, c) ==
    CASE c.op = "trace" -> trace(m, e, c.name, c.span_type, c.bind)
      [] c.op = "set_tag" -> set_tag(m, e, c.var, c.key, c.value)
      [] c.op = "set_metric" -> set_metric(m, e, c.var, c.key, c.value)
      [] c.op = "info" -> info(m, e, c.event, c.kw)
      [] c.op = "assign" -> [m EXCEPT !.frame[e][c.var] = c.value]
      [] c.op = "strategies" -> [m EXCEPT !.strategies = c.value]
      [] c.op = "exit" -> span_exit(m, e, NoExc)

RECURSIVE Run(_, _, _, _, _)
Run(m, e, ops, i, f) ==
    IF i > Len(ops) \/ m.frame[e].exc # NoExc THEN m
    ELSE Run(IF i = f
             THEN Raise(m, e, [type |-> "InstrumentationError", at |-> ops[i].line])
             ELSE Do(m, e, ops[i]),
             e, ops, i + 1, f)

\* spans opened without `with`: an exception leaves them open
UnwindLeak(m, e) == m

\* an exception leaves every `with` block the handler is in, innermost first
RECURSIVE Unwind(_, _)
Unwind(m, e) ==
    IF m.frame[e].scopes = <<>> THEN m
    ELSE Unwind(span_exit(m, e, m.frame[e].exc), e)

(***************************************************************************)
(* TestService.process                                                     *)
(***************************************************************************)
\* the first run with slow_render tagged only after the delay
RenderOpsTagLate(document_id, strategy, is_slow_render) ==
    <<[op |-> "trace", line |-> 162, name |-> "document.process",
       span_type |-> "serverless", bind |-> "root"],
      [op |-> "set_tag", line |-> 163, var |-> "root", key |-> "document_id",
       value |-> document_id],
      [op |-> "set_tag", line |-> 164, var |-> "root", key |-> "strategy",
       value |-> strategy],
      [op |-> "set_tag", line |-> 165, var |-> "root", key |-> "span.kind",
       value |-> "server"],
      [op |-> "info", line |-> 166, event |-> "processing_document",
       kw |-> <<<<"document_id", document_id>>, <<"strategy", strategy>>>>],
      [op |-> "trace", line |-> 169, name |-> "document.render_pages",
       span_type |-> "template", bind |-> "render_span"],
      [op |-> "set_metric", line |-> 170, var |-> "render_span", key |-> "pages_count",
       value |-> 10],
      [op |-> "assign", line |-> 171, var |-> "is_slow_render", value |-> is_slow_render],
      [op |-> "assign", line |-> 172, var |-> "render_time",
       value |-> IF is_slow_render THEN 1000 ELSE 200]>>

\* the first run with the first record logged before the root span is tagged
RenderOpsLogFirst(document_id, strategy, is_slow_render) ==
    <<[op |-> "trace", line |-> 162, name |-> "document.process",
       span_type |-> "serverless", bind |-> "root"],
      [op |-> "info", line |-> 166, event |-> "processing_document",
       kw |-> <<<<"document_id", document_id>>, <<"strategy", strategy>>>>],
      [op |-> "set_tag", line |-> 163, var |-> "root", key |-> "document_id",
       value |-> document_id],
      [op |-> "set_tag", line |-> 164, var |-> "root", key |-> "strategy",
       value |-> strategy],
      [op |-> "set_tag", line |-> 165, var |-> "root", key |-> "span.kind",
       value |-> "server"],
      [op |-> "trace", line |-> 169, name |-> "document.render_pages",
       span_type |-> "template", bind |-> "render_span"],
      [op |-> "set_metric", line |-> 170, var |-> "render_span", key |-> "pages_count",
       value |-> 10],
      [op |-> "assign", line |-> 171, var |-> "is_slow_render", value |-> is_slow_render],
      [op |-> "assign", line |-> 172, var |-> "render_time",
       value |-> IF is_slow_render THEN 1000 ELSE 200],
      [op |-> "set_tag", line |-> 173, var |-> "render_span", key |-> "slow_render",
       value |-> is_slow_render]>>

\* lines 162-173: from the call to the first await
RenderOps(document_id, strategy, is_slow_render) ==
    <<[op |-> "trace", line |-> 162, name |-> "document.process",
       span_type |-> "serverless", bind |-> "root"],
      [op |-> "set_tag", line |-> 163, var |-> "root", key |-> "document_id",
       value |-> document_id],
      [op |-> "set_tag", line |-> 164, var |-> "root", key |-> "strategy",
       value |-> strategy],
      [op |-> "set_tag", line |-> 165, var |-> "root", key |-> "span.kind",
       value |-> "server"],
      [op |-> "info", line |-> 166, event |-> "processing_document",
       kw |-> <<<<"document_id", document_id>>, <<"strategy", strategy>>>>],
      [op |-> "trace", line |-> 169, name |-> "document.render_pages",
       span_type |-> "template", bind |-> "render_span"],
      [op |-> "set_metric", line |-> 170, var |-> "render_span", key |-> "pages_count",
       value |-> 10],
      [op |-> "assign", line |-> 171, var |-> "is_slow_render", value |-> is_slow_render],
      [op |-> "assign", line |-> 172, var |-> "render_time",
       value |-> IF is_slow_render THEN 1000 ELSE 200],
      [op |-> "set_tag", line |-> 173, var |-> "render_span", key |-> "slow_render",
       value |-> is_slow_render]>>

\* the second run with llm_time chosen by the flag of the render stage
LlmOpsWrongFlag(fr, is_slow_llm) ==
    <<[op |-> "info", line |-> 175, event |-> "rendered_pages",
       kw |-> <<<<"pages", 10>>, <<"slow", fr.is_slow_render>>, <<"duration_ms", fr.render_time>>>>],
      [op |-> "exit", line |-> 175],
      [op |-> "trace", line |-> 178, name |-> "document.llm_extract",
       span_type |-> "llm", bind |-> "llm_span"],
      [op |-> "set_tag", line |-> 179, var |-> "llm_span", key |-> "model",
       value |-> "mineru-vl"],
      [op |-> "set_metric", line |-> 180, var |-> "llm_span", key |-> "tokens_processed",
       value |-> 1500],
      [op |-> "assign", line |-> 181, var |-> "is_slow_llm", value |-> is_slow_llm],
      [op |-> "assign", line |-> 182, var |-> "llm_time",
       value |-> IF fr.is_slow_render THEN 900 ELSE 300],
      [op |-> "set_tag", line |-> 183, var |-> "llm_span", key |-> "slow_llm",
       value |-> is_slow_llm]>>

\* the second run with the extraction span opened inside the render scope
LlmOpsNested(fr, is_slow_llm) ==
    <<[op |-> "info", line |-> 175, event |-> "rendered_pages",
       kw |-> <<<<"pages", 10>>, <<"slow", fr.is_slow_render>>, <<"duration_ms", fr.render_time>>>>],
      [op |-> "trace", line |-> 178, name |-> "document.llm_extract",
       span_type |-> "llm", bind |-> "llm_span"],
      [op |-> "set_tag", line |-> 179, var |-> "llm_span", key |-> "model",
       value |-> "mineru-vl"],
      [op |-> "set_metric", line |-> 180, var |-> "llm_span", key |-> "tokens_processed",
       value |-> 1500],
      [op |-> "assign", line |-> 181, var |-> "is_slow_llm", value |-> is_slow_llm],
      [op |-> "assign", line |-> 182, var |-> "llm_time",
       value |-> IF is_slow_llm THEN 900 ELSE 300],
      [op |-> "set_tag", line |-> 183, var |-> "llm_span", key |-> "slow_llm",
       value |-> is_slow_llm],
      [op |-> "exit", line |-> 185]>>

\* lines 175-183: from the first await to the second
LlmOps(fr, is_slow_llm) ==
    <<[op |-> "info", line |-> 175, event |-> "rendered_pages",
       kw |-> <<<<"pages", 10>>, <<"slow", fr.is_slow_render>>, <<"duration_ms", fr.render_time>>>>],
      [op |-> "exit", line |-> 175],
      [op |-> "trace", line |-> 178, name |-> "document.llm_extract",
       span_type |-> "llm", bind |-> "llm_span"],
      [op |-> "set_tag", line |-> 179, var |-> "llm_span", key |-> "model",
       value |-> "mineru-vl"],
      [op |-> "set_metric", line |-> 180, var |-> "llm_span", key |-> "tokens_processed",
       value |-> 1500],
      [op |-> "assign", line |-> 181, var |-> "is_slow_llm", value |-> is_slow_llm],
      [op |-> "assign", line |-> 182, var |-> "llm_time",
       value |-> IF is_slow_llm THEN 900 ELSE 300],
      [op |-> "set_tag", line |-> 183, var |-> "llm_span", key |-> "slow_llm",
       value |-> is_slow_llm]>>

\* the last run with the root scope still open when the try block is left
FinalOpsRootOpen(fr) ==
    <<[op |-> "info", line |-> 185, event |-> "extracted_content",
       kw |-> <<<<"tokens", 1500>>, <<"slow", fr.is_slow_llm>>, <<"duration_ms", fr.llm_time>>>>],
      [op |-> "exit", line |-> 185],
      [op |-> "set_metric", line |-> 188, var |-> "root", key |-> "total_pages",
       value |-> 10],
      [op |-> "info", line |-> 189, event |-> "document_processed_successfully",
       kw |-> EmptyDict]>>

\* lines 185-189: from the second await to the end of the root scope
FinalOps(fr) ==
    <<[op |-> "info", line |-> 185, event |-> "extracted_content",
       kw |-> <<<<"tokens", 1500>>, <<"slow", fr.is_slow_llm>>, <<"duration_ms", fr.llm_time>>>>],
      [op |-> "exit", line |-> 185],
      [op |-> "set_metric", line |-> 188, var |-> "root", key |-> "total_pages",
       value |-> 10],
      [op |-> "info", line |-> 189, event |-> "document_processed_successfully",
       kw |-> EmptyDict],
      [op |-> "exit", line |-> 189]>>

\* lines 191-196: the record process returns
Result(fr) ==
    [document_id |-> fr.document_id, strategy |-> fr.strategy,
     status |-> "success", pages |-> 10]

\* the flush written after the root scope instead of in a finally block
FinallyOnSuccessOnly(m, t, flush_fails) ==
    IF m.frame[t].exc # NoExc THEN m
    ELSE IF flush_fails
    THEN Raise(Observe(m, t, [op |-> "flush"]), t,
               [type |-> "InstrumentationError", at |-> 201])
    ELSE flush(m, t)

\* the flush written in `except Exception:` and after the root scope: a
\* CancelledError, which is a BaseException, passes it by
FinallyExceptException(m, t, flush_fails) ==
    IF m.frame[t].exc.type = "CancelledError" THEN m
    ELSE IF flush_fails
    THEN Raise(Observe(m, t, [op |-> "flush"]), t,
               [type |-> "InstrumentationError", at |-> 201])
    ELSE flush(m, t)

\* lines 197-201: the finally block; flush_fails: tracer.flush() raises
Finally(m, t, flush_fails) ==
    IF flush_fails
    THEN Raise(Observe(m, t, [op |-> "flush"]), t,
               [type |-> "InstrumentationError", at |-> 201])
    ELSE flush(m, t)

\* what the caller of process gets once the finally block is done
Leave(m, t) ==
    IF m.frame[t].exc = NoExc
    THEN [kind |-> "returned", value |-> Result(m.frame[t])]
    ELSE [kind |-> "raised", exc |-> m.frame[t].exc]

\* the machine state after a run becomes the next state
Commit(m) ==
    /\ frame' = m.frame
    /\ spans' = m.spans
    /\ ctxvar' = m.ctxvar
    /\ rand' = m.rand
    /\ stdout' = m.stdout
    /\ events' = m.events
    /\ writer' = m.writer
    /\ strategies' = m.strategies

InFlight == {t \in Tasks : pc[t] \in {"render_sleep", "llm_sleep"}}

\* a fault may be injected into invocation t
Faultable(t) == t \in faulty \/ Cardinality(faulty) < MaxFaulty

\* The end of a run of process, in state m: an exception leaves the `with`
\* blocks and then the try (lines 160-201): the finally block runs and the
\* caller gets the exception; after the last run the finally block runs and
\* the caller gets the result; otherwise the invocation suspends at next_pc.
EndOfRun(t, m, fault, flush_fails, last, next_pc) ==
    LET raised == m.frame[t].exc # NoExc
        leaving == raised \/ last
        m1 == IF raised THEN Unwind(m, t) ELSE m
        m2 == IF leaving THEN Finally(m1, t, flush_fails) ELSE m1
        m3 == IF leaving THEN Observe(m2, t, [op |-> "leave", kind |-> Leave(m2, t).kind])
              ELSE m2
    IN /\ flush_fails => leaving
       /\ (fault \/ flush_fails) => Faultable(t)
       /\ Commit(m3)
       /\ pc' = [pc EXCEPT ![t] = IF leaving THEN "done" ELSE next_pc]
       /\ outcome' = IF leaving THEN [outcome EXCEPT ![t] = Leave(m2, t)] ELSE outcome
       /\ faulty' = IF fault \/ flush_fails THEN faulty \cup {t} ELSE faulty
       /\ UNCHANGED <<phase, environ>>

\* process is called: lines 160-174, up to `await asyncio.sleep(render_time)`.
\* The task of the invocation starts with a copy of the container's context.
process_call(t) ==
    /\ phase = "warm"
    /\ pc[t] = "idle"
    /\ Cardinality(InFlight) < max_inputs
    /\ \E req \in Requests, is_slow_render \in BOOLEAN, flush_fails \in BOOLEAN :
         LET ops == RenderOps(req[1], req[2], is_slow_render)
             m0 == [Machine EXCEPT
                      !.frame[t] = [NewFrame EXCEPT !.document_id = req[1],
                                                    !.strategy = req[2]],
                      !.ctxvar[ContextKey(t)] = ctxvar[ContextKey(Hook)]]
         IN \E f \in FaultPoints(ops) :
              EndOfRun(t, Run(m0, t, ops, 1, f), f # 0, flush_fails, FALSE, "render_sleep")

\* the ways an awaited delay ends: it elapses, the stage's work fails (an
\* exception thrown into the coroutine at the await), the task is cancelled
SleepEnds == {"ok", "WorkError", "CancelledError"}

\* the first delay ends: lines 174-184, up to `await asyncio.sleep(llm_time)`
process_rendered(t) ==
    /\ pc[t] = "render_sleep"
    /\ \E how \in SleepEnds, is_slow_llm \in BOOLEAN, flush_fails \in BOOLEAN :
         LET ops == LlmOps(frame[t], is_slow_llm)
         IN \E f \in FaultPoints(ops) :
              /\ how # "ok" => f = 0 /\ ~is_slow_llm
              /\ EndOfRun(t,
                          IF how = "ok" THEN Run(Machine, t, ops, 1, f)
                          ELSE Raise(Machine, t, [type |-> how, at |-> 174]),
                          f # 0 \/ how # "ok", flush_fails, FALSE, "llm_sleep")

\* the second delay ends: lines 184-201, to the return
process_extracted(t) ==
    /\ pc[t] = "llm_sleep"
    /\ \E how \in SleepEnds, flush_fails \in BOOLEAN :
         LET ops == FinalOps(frame[t])
         IN \E f \in FaultPoints(ops) :
              /\ how # "ok" => f = 0
              /\ EndOfRun(t,
                          IF how = "ok" THEN Run(Machine, t, ops, 1, f)
                          ELSE Raise(Machine, t, [type |-> how, at |-> 184]),
                          f # 0 \/ how # "ok", flush_fails, TRUE, "done")

(***************************************************************************)
(* TestService.init and TestService.finish                                 *)
(***************************************************************************)
\* lines 145-148
InitOps ==
    <<[op |-> "trace", line |-> 145, name |-> "modal.init",
       span_type |-> "serverless", bind |-> "span"],
      [op |-> "info", line |-> 146, event |-> "service_initializing",
       kw |-> <<<<"strategies", <<"mineru-vl", "dots-ocr">>>>>>],
      [op |-> "strategies", line |-> 147, value |-> <<"mineru-vl", "dots-ocr">>],
      [op |-> "info", line |-> 148, event |-> "service_initialized", kw |-> EmptyDict],
      [op |-> "exit", line |-> 148]>>

\* what the platform gets from a lifecycle hook that ran to state m
HookOutcome(m) ==
    IF m.frame[Hook].exc # NoExc
    THEN [kind |-> "raised", exc |-> m.frame[Hook].exc]
    ELSE [kind |-> "returned", value |-> "None"]

\* @enter: runs once, before the container takes invocations.  Its tracer
\* and logger calls are unguarded: one that raises leaves the with block and
\* init; a container whose @enter raised takes no invocations.
init ==
    /\ phase = "cold"
    /\ \E f \in FaultPoints(InitOps) :
         LET m1 == Run(Machine, Hook, InitOps, 1, f)
             m2 == IF m1.frame[Hook].exc # NoExc THEN Unwind(m1, Hook) ELSE m1
         IN /\ Commit(m2)
            /\ outcome' = [outcome EXCEPT ![Hook] = HookOutcome(m2)]
            /\ phase' = IF m2.frame[Hook].exc # NoExc THEN "failed" ELSE "warm"
    /\ UNCHANGED <<pc, faulty, environ>>

\* finish with the shutdown record logged after the modal.exit span is closed
ExitOpsLogAfter ==
    <<[op |-> "trace", line |-> 206, name |-> "modal.exit",
       span_type |-> "serverless", bind |-> "span"],
      [op |-> "exit", line |-> 207],
      [op |-> "info", line |-> 207, event |-> "service_shutting_down", kw |-> EmptyDict]>>

\* lines 206-207
ExitOps ==
    <<[op |-> "trace", line |-> 206, name |-> "modal.exit",
       span_type |-> "serverless", bind |-> "span"],
      [op |-> "info", line |-> 207, event |-> "service_shutting_down", kw |-> EmptyDict],
      [op |-> "exit", line |-> 207]>>

\* a finish that guards the shutdown: its error is swallowed and completion logged
finish_shutdown_guarded(m, f) ==
    LET m1 == IF f = 1 THEN m ELSE shutdown(m, Hook)
    IN IF f = 2
       THEN Raise(m1, Hook, [type |-> "InstrumentationError", at |-> 209])
       ELSE info(m1, Hook, "tracer_shutdown_complete", EmptyDict)

\* lines 208-209: the tracer is shut down, then completion is logged; the
\* call with index f (0: none, 1: tracer.shutdown, 2: logger.info) raises
finish_shutdown(m, f) ==
    IF f = 1
    THEN Raise(m, Hook, [type |-> "InstrumentationError", at |-> 208])
    ELSE LET m1 == shutdown(m, Hook)
         IN IF f = 2
            THEN Raise(m1, Hook, [type |-> "InstrumentationError", at |-> 209])
            ELSE info(m1, Hook, "tracer_shutdown_complete", EmptyDict)

\* @exit: runs at container teardown, when no invocation is in flight
finish ==
    /\ phase = "warm"
    /\ InFlight = {}
    /\ \E f \in FaultPoints(ExitOps), g \in 0..2 :
         LET m0 == [Machine EXCEPT !.frame[Hook] = NewFrame]
             m1 == Run(m0, Hook, ExitOps, 1, f)
             m2 == IF m1.frame[Hook].exc # NoExc
                   THEN Unwind(m1, Hook)
                   ELSE finish_shutdown(m1, g)
         IN /\ Commit(m2)
            /\ outcome' = [outcome EXCEPT ![Hook] = HookOutcome(m2)]
    /\ phase' = "stopped"
    /\ UNCHANGED <<pc, faulty, environ>>

(***************************************************************************)
(* The container.                                                          *)
(***************************************************************************)
\* the platform's variables, all set (a Modal container) or none (a local run)
Environs ==
    {EmptyDict,
     [MODAL_IS_REMOTE |-> "1", MODAL_ENVIRONMENT |-> "dev", MODAL_REGION |-> "us-east",
      MODAL_TASK_ID |-> "ta-1", MODAL_IMAGE_ID |-> "im-1"]}

\* a fresh container, before @enter
Boot ==
    /\ phase = "cold"
    /\ pc = [t \in Tasks |-> "idle"]
    /\ frame = [e \in Emitters |-> NewFrame]
    /\ spans = <<>>
    /\ ctxvar = [e \in Emitters |-> None]
    /\ rand = [e \in Emitters |-> 0]
    /\ stdout = [e \in Emitters |-> <<>>]
    /\ events = [e \in Emitters |-> <<>>]
    /\ writer = [queue |-> {}, sent |-> {}, running |-> TRUE]
    /\ outcome = [e \in Emitters |-> [kind |-> "none"]]
    /\ faulty = {}
    /\ strategies = <<>>

Init ==
    /\ Boot
    /\ environ \in Environs

Next ==
    \/ init
    \/ \E t \in Tasks : process_call(t)
    \/ \E t \in Tasks : process_rendered(t)
    \/ \E t \in Tasks : process_extracted(t)
    \/ finish

Spec == Init /\ [][Next]_vars

(***************************************************************************)
(* The container in any environment, serving one invocation.               *)
(***************************************************************************)
\* the variables add_modal_context reads, and a value for each
EnvVars ==
    {"MODAL_IS_REMOTE", "MODAL_ENVIRONMENT", "MODAL_REGION", "MODAL_TASK_ID",
     "MODAL_IMAGE_ID"}

EnvValue ==
    [MODAL_IS_REMOTE |-> "1", MODAL_ENVIRONMENT |-> "dev", MODAL_REGION |-> "us-east",
     MODAL_TASK_ID |-> "ta-1", MODAL_IMAGE_ID |-> "im-1"]

\* every subset of the variables may be set
AllEnvirons == {[k \in S |-> EnvValue[k]] : S \in SUBSET EnvVars}

InitEnv ==
    /\ Boot
    /\ environ \in AllEnvirons

NextEnv ==
    \/ init
    \/ process_call(1)
    \/ process_rendered(1)
    \/ process_extracted(1)
    \/ finish

SpecEnv == InitEnv /\ [][NextEnv]_vars

(***************************************************************************)
(* Reading the observation history.                                        *)
(***************************************************************************)
At(e, o) == {i \in 1..Len(events[e]) : events[e][i].op = o}

\* where emitter e opened / closed span id (the set is empty if it did not)
Opened(e, id) == {i \in At(e, "open") : events[e][i].id = id}
Closed(e, id) == {i \in At(e, "close") : events[e][i].id = id}

\* the spans emitter e opened
OpenedBy(e) == {events[e][i].id : i \in At(e, "open")}

\* the exceptions raised in the handler on e, and those raised on the given lines
Thrown(e) == {events[e][i].exc : i \in At(e, "throw")}
ThrownAt(e, lines) == {x \in Thrown(e) : x.at \in lines}

\* the source lines of the bodies of the two child stages and of the root scope
RenderStage == 170..175
LlmStage == 179..185
RootScope == 162..189

Done(t) == pc[t] = "done"

\* the span of e that is innermost open just before position i of e's history
ActiveAt(e, i) ==
    LET open == {j \in At(e, "open") :
                    /\ j < i
                    /\ \A k \in Closed(e, events[e][j].id) : k > i}
    IN IF open = {} THEN None
       ELSE events[e][CHOOSE j \in open : \A k \in open : k <= j].id

(***************************************************************************)
(* Claims.                                                                 *)
(***************************************************************************)
\* C1: every invocation of process that has finished called tracer.flush
\* exactly once, and did so before control went back to the caller, whether
\* it returned or raised; an invocation that has not finished has not
\* flushed more than once either.
C1_FlushExactlyOnce ==
    \A t \in Tasks :
        /\ Cardinality(At(t, "flush")) <= 1
        /\ Done(t) =>
             /\ Cardinality(At(t, "flush")) = 1
             /\ Cardinality(At(t, "leave")) = 1
             /\ \A i \in At(t, "flush"), j \in At(t, "leave") : i < j

\* C1 witness: one invocation returned and another raised inside a child stage
C1_Witness ==
    \E t, u \in Tasks :
        /\ Done(t) /\ outcome[t].kind = "returned"
        /\ Done(u) /\ outcome[u].kind = "raised"
        /\ ThrownAt(u, RenderStage \cup LlmStage) # {}

\* C2: when an invocation has finished, every span it opened has been closed
\* exactly once: as many close events as open events, one of each per span.
C2_NoLeakedSpans ==
    \A t \in Tasks :
        Done(t) =>
            /\ Cardinality(At(t, "close")) = Cardinality(At(t, "open"))
            /\ \A id \in OpenedBy(t) :
                 /\ Cardinality(Opened(t, id)) = 1
                 /\ Cardinality(Closed(t, id)) = 1
                 /\ spans[id].finished

\* C2 witness: a stage raised while the root span and a child span were open
C2_Witness ==
    \E t \in Tasks :
        /\ Done(t)
        /\ ThrownAt(t, {174, 184}) # {}
        /\ Cardinality(At(t, "open")) >= 2

\* C3: when an exception is raised inside a stage of process, the flush is
\* done before the caller gets the exception, the caller gets the very
\* exception the stage raised, and no result record is returned.
C3_StageErrorUnchanged ==
    \A t \in Tasks :
        \A x \in ThrownAt(t, RenderStage \cup LlmStage) :
            Done(t) =>
                /\ \E i \in At(t, "flush") : \A j \in At(t, "leave") : i < j
                /\ outcome[t] = [kind |-> "raised", exc |-> x]

\* C4: an invocation cancelled while suspended at either stage delay still
\* runs the flush step, and all the spans it had opened are closed.
C4_CancelStillFlushes ==
    \A t \in Tasks :
        (Done(t) /\ \E x \in ThrownAt(t, {174, 184}) : x.type = "CancelledError") =>
            /\ At(t, "flush") # {}
            /\ \A id \in OpenedBy(t) : spans[id].finished /\ Closed(t, id) # {}

\* C4 witness: an invocation was cancelled during the delay of llm_extract
C4_Witness ==
    \E t \in Tasks :
        /\ Done(t)
        /\ [type |-> "CancelledError", at |-> 184] \in Thrown(t)
        /\ Cardinality(OpenedBy(t)) = 3

\* C5: a log record emitted while a span of the emitting task is open carries
\* the trace identifier and the span identifier of the innermost such span;
\* a record emitted while none is open carries no trace identifiers.
C5_LogCorrelation ==
    \A e \in Emitters :
        \A i \in At(e, "log") :
            LET r == stdout[e][events[e][i].n].json
                a == ActiveAt(e, i)
            IN IF a = None THEN "dd" \notin DOMAIN r
               ELSE /\ "dd" \in DOMAIN r
                    /\ r.dd.trace_id = str(spans[a].trace_id)
                    /\ r.dd.span_id = str(spans[a].span_id)

\* C5 witness: records were emitted in init, in a complete process invocation
\* and in finish, the last one of finish with no span open
C5_Witness ==
    /\ phase = "stopped"
    /\ outcome[Hook].kind = "returned"
    /\ ActiveAt(Hook, Len(events[Hook])) = None
    /\ \E t \in Tasks : outcome[t].kind = "returned"

\* C6: with invocations interleaved at their awaits, every log record of an
\* invocation references only a span opened by that invocation, and the
\* trace the invocation itself started.
C6_NoCrossContamination ==
    \A t \in Tasks :
        \A n \in 1..Len(stdout[t]) :
            LET r == stdout[t][n].json
            IN "dd" \in DOMAIN r =>
                 /\ \E id \in DOMAIN spans :
                      spans[id].owner = t /\ r.dd.span_id = str(id)
                 /\ \E id \in DOMAIN spans :
                      /\ spans[id].owner = t
                      /\ spans[id].parent = None
                      /\ r.dd.trace_id = str(spans[id].trace_id)
                 /\ \A id \in DOMAIN spans :
                      spans[id].owner # t =>
                          /\ r.dd.span_id # str(id)
                          /\ r.dd.trace_id # str(spans[id].trace_id)

\* C6 witness: two invocations are suspended in llm_extract at the same time,
\* each having logged while the other had spans open
C6_Witness ==
    \E t, u \in Tasks :
        /\ t # u
        /\ pc[t] = "llm_sleep" /\ pc[u] = "llm_sleep"
        /\ Len(stdout[t]) = 2 /\ Len(stdout[u]) = 2

\* C7: every invocation opens its own root span, which has no parent and a
\* trace of its own, and the parent of each child span is the root span the
\* same invocation opened.
C7_SpanTreesSeparate ==
    \A id \in DOMAIN spans :
        LET s == spans[id]
        IN s.owner \in Tasks =>
             IF s.name = "document.process"
             THEN /\ s.parent = None
                  /\ \A o \in DOMAIN spans :
                       spans[o].trace_id = s.trace_id => spans[o].owner = s.owner
             ELSE /\ s.parent \in DOMAIN spans
                  /\ spans[s.parent].owner = s.owner
                  /\ spans[s.parent].name = "document.process"
                  /\ spans[s.parent].trace_id = s.trace_id

\* C7 witness: two invocations have their root and a child span open at once
C7_Witness ==
    \E t, u \in Tasks :
        /\ t # u
        /\ pc[t] = "render_sleep" /\ pc[u] = "llm_sleep"
        /\ \A id \in {frame[t].root, frame[t].render_span,
                      frame[u].root, frame[u].llm_span} :
             id \in DOMAIN spans /\ ~spans[id].finished

\* C8: within one invocation, every child span is opened while the root span
\* is open and is closed before the root span is closed.
C8_ChildWithinRoot ==
    \A t \in Tasks :
        \A c \in OpenedBy(t) :
            spans[c].name # "document.process" =>
                \E r \in OpenedBy(t) :
                    /\ spans[r].name = "document.process"
                    /\ \A i \in Opened(t, r), j \in Opened(t, c) :
                         i < j /\ \A k \in Closed(t, r) : j < k
                    /\ \A k \in Closed(t, r) :
                         \E j \in Closed(t, c) : j < k

\* C8 witness: an invocation raised in a child stage with both spans open,
\* and both were closed
C8_Witness ==
    \E t \in Tasks :
        /\ Done(t)
        /\ outcome[t].kind = "raised"
        /\ ThrownAt(t, {173, 174}) # {}
        /\ Cardinality(At(t, "close")) = 2

\* C9: an invocation in which nothing raises inside the root scope returns
\* the record {document_id, strategy, status: "success", pages: 10} of its own
\* arguments, with exactly one flush.
C9_SuccessRecord ==
    \A t \in Tasks :
        (Done(t) /\ ThrownAt(t, RootScope) = {}) =>
            /\ outcome[t] = [kind |-> "returned",
                             value |-> [document_id |-> frame[t].document_id,
                                        strategy |-> frame[t].strategy,
                                        status |-> "success", pages |-> 10]]
            /\ Cardinality(At(t, "flush")) = 1

\* C10: a failure of an instrumentation call during process (opening a span,
\* setting a tag or a metric, emitting a log record, tracer.flush) never makes
\* process raise: an invocation in which only instrumentation calls failed
\* returns its result record.
C10_InstrumentationNeverFails ==
    \A t \in Tasks :
        (Done(t) /\ \A x \in Thrown(t) : x.type = "InstrumentationError") =>
            outcome[t] = [kind |-> "returned", value |-> Result(frame[t])]

\* where emitter e logged the record with the given event name
LogAt(e, name) == {i \in At(e, "log") : stdout[e][events[e][i].n].json.event = name}

\* the spans with the given operation name that emitter e opened
SpanNamed(e, name) == {id \in OpenedBy(e) : spans[id].name = name}

\* C11: finish opens the modal.exit span, logs service_shutting_down inside
\* it and closes it; only then it shuts the tracer down; only after the
\* shutdown it logs tracer_shutdown_complete.  A step that raises ends
\* finish: the steps after it do not happen, and no step happens out of
\* this order; a finish that returned did each step once.
C11_FinishOrder ==
    /\ (phase = "stopped" /\ ThrownAt(Hook, {206}) = {}) =>
         SpanNamed(Hook, "modal.exit") # {}
    /\ \A x \in SpanNamed(Hook, "modal.exit") :
         \A o \in Opened(Hook, x) :
            \E c \in Closed(Hook, x) :
               /\ o < c
               /\ \A s \in At(Hook, "shutdown") : c < s
               /\ ThrownAt(Hook, {207}) = {} =>
                     \E l \in LogAt(Hook, "service_shutting_down") : o < l /\ l < c
    /\ \A l \in LogAt(Hook, "service_shutting_down") :
         \E x \in SpanNamed(Hook, "modal.exit") :
            \E o \in Opened(Hook, x), c \in Closed(Hook, x) : o < l /\ l < c
    /\ \A s \in At(Hook, "shutdown") :
         \E x \in SpanNamed(Hook, "modal.exit") : \E c \in Closed(Hook, x) : c < s
    /\ \A d \in LogAt(Hook, "tracer_shutdown_complete") :
         \E s \in At(Hook, "shutdown") : s < d
    /\ (phase = "stopped" /\ outcome[Hook].kind = "returned") =>
         /\ Cardinality(At(Hook, "shutdown")) = 1
         /\ Cardinality(LogAt(Hook, "tracer_shutdown_complete")) = 1
         /\ Cardinality(LogAt(Hook, "service_shutting_down")) = 1

\* C11 witness: finish ran to its end
C11_Witness ==
    /\ phase = "stopped"
    /\ outcome[Hook].kind = "returned"
    /\ LogAt(Hook, "tracer_shutdown_complete") # {}
    /\ ~writer.running

\* the span held in local variable var of invocation t carries tag key = value
Tagged(t, var, key, value) ==
    /\ frame[t][var] \in DOMAIN spans
    /\ key \in DOMAIN spans[frame[t][var]].tags
    /\ spans[frame[t][var]].tags[key] = value

\* C12: in each child stage the slow tag is on the stage's span when the
\* delay begins (the invocation is suspended in the stage with the tag set),
\* and a stage that was cancelled or failed during its delay has the tag on
\* its closed span.
C12_SlowTagBeforeDelay ==
    \A t \in Tasks :
        /\ pc[t] = "render_sleep" =>
             /\ Tagged(t, "render_span", "slow_render", frame[t].is_slow_render)
             /\ ~spans[frame[t].render_span].finished
        /\ pc[t] = "llm_sleep" =>
             /\ Tagged(t, "llm_span", "slow_llm", frame[t].is_slow_llm)
             /\ ~spans[frame[t].llm_span].finished
        /\ ThrownAt(t, {174}) # {} =>
             /\ Tagged(t, "render_span", "slow_render", frame[t].is_slow_render)
             /\ Done(t) => spans[frame[t].render_span].finished
        /\ ThrownAt(t, {184}) # {} =>
             /\ Tagged(t, "llm_span", "slow_llm", frame[t].is_slow_llm)
             /\ Done(t) => spans[frame[t].llm_span].finished

\* C12 witness: a slow llm_extract stage was cancelled during its delay
C12_Witness ==
    \E t \in Tasks :
        /\ Done(t)
        /\ [type |-> "CancelledError", at |-> 184] \in Thrown(t)
        /\ Tagged(t, "llm_span", "slow_llm", TRUE)
        /\ spans[frame[t].llm_span].finished

\* the records with the given event name that emitter e printed
Records(e, name) ==
    {stdout[e][n].json : n \in {k \in 1..Len(stdout[e]) : stdout[e][k].json.event = name}}

\* C13: a stage that is not marked slow reports its baseline duration (200 ms
\* for render, 300 ms for extraction) and one that is marked slow reports
\* 1000 ms and 900 ms; the mark in the record is the tag on the stage's span;
\* with no stage marked slow the reported durations add up to 200 + 300, and
\* with every stage marked slow they are 1000 and 900.
C13_SlowDurations ==
    \A t \in Tasks :
        /\ \A r \in Records(t, "rendered_pages") :
             /\ Tagged(t, "render_span", "slow_render", r.slow)
             /\ r.duration_ms = IF r.slow THEN 1000 ELSE 200
        /\ \A r \in Records(t, "extracted_content") :
             /\ Tagged(t, "llm_span", "slow_llm", r.slow)
             /\ r.duration_ms = IF r.slow THEN 900 ELSE 300
        /\ \A r \in Records(t, "rendered_pages"), x \in Records(t, "extracted_content") :
             /\ (~r.slow /\ ~x.slow) => r.duration_ms + x.duration_ms = 200 + 300
             /\ (r.slow /\ x.slow) => r.duration_ms = 1000 /\ x.duration_ms = 900

\* C13 witness: the two decisions are independent: one invocation was slow in
\* render only and another in extraction only
C13_Witness ==
    \E t, u \in Tasks :
        /\ outcome[t].kind = "returned" /\ outcome[u].kind = "returned"
        /\ \E r \in Records(t, "rendered_pages"), x \in Records(t, "extracted_content") :
             r.slow /\ ~x.slow /\ r.duration_ms = 1000 /\ x.duration_ms = 300
        /\ \E r \in Records(u, "rendered_pages"), x \in Records(u, "extracted_content") :
             ~r.slow /\ x.slow /\ r.duration_ms = 200 /\ x.duration_ms = 900

\* the runtime context of a record agrees with the environment, where an
\* absent MODAL_IS_REMOTE reads as dflt and any other absent variable as "unknown"
ContextAgrees(r, dflt) ==
    /\ "modal" \in DOMAIN r
    /\ r.modal.is_remote = IF "MODAL_IS_REMOTE" \in DOMAIN environ
                           THEN environ["MODAL_IS_REMOTE"] ELSE dflt
    /\ r.modal.environment = IF "MODAL_ENVIRONMENT" \in DOMAIN environ
                             THEN environ["MODAL_ENVIRONMENT"] ELSE "unknown"
    /\ r.modal.region = IF "MODAL_REGION" \in DOMAIN environ
                        THEN environ["MODAL_REGION"] ELSE "unknown"
    /\ r.modal.task_id = IF "MODAL_TASK_ID" \in DOMAIN environ
                         THEN environ["MODAL_TASK_ID"] ELSE "unknown"
    /\ r.modal.image_id = IF "MODAL_IMAGE_ID" \in DOMAIN environ
                          THEN environ["MODAL_IMAGE_ID"] ELSE "unknown"

\* C14 as stated: every log record carries the runtime context, and each
\* platform fact in it, the is-remote flag included, is "unknown" when its
\* environment variable is absent and the variable's value otherwise.
C14_AllUnknown ==
    \A e \in Emitters :
        \A n \in 1..Len(stdout[e]) : ContextAgrees(stdout[e][n].json, "unknown")

\* C14 amended: every log record carries the runtime context; environment,
\* region, task identifier and image identifier are "unknown" when their
\* variable is absent, the is-remote flag is "0" when MODAL_IS_REMOTE is
\* absent, and each is the variable's value otherwise.
C14_RuntimeContext ==
    \A e \in Emitters :
        \A n \in 1..Len(stdout[e]) : ContextAgrees(stdout[e][n].json, "0")

\* C14 witness: a whole invocation and both hooks logged in an environment
\* where MODAL_IS_REMOTE and MODAL_TASK_ID are absent and MODAL_REGION is set
C14_Witness ==
    /\ phase = "stopped"
    /\ "MODAL_IS_REMOTE" \notin DOMAIN environ
    /\ "MODAL_TASK_ID" \notin DOMAIN environ
    /\ "MODAL_REGION" \in DOMAIN environ
    /\ \E t \in Tasks : Len(stdout[t]) = 4
    /\ Len(stdout[Hook]) = 4

\* the keys of a sequence
Range(q) == {q[i] : i \in 1..Len(q)}

\* the keys the chain sets, in the order of the chain: the event, then level,
\* logger name, timestamp, runtime context and, under an active span, trace context
ChainKeys(withSpan) ==
    <<"event", "level", "logger", "timestamp", "modal">>
    \o (IF withSpan THEN <<"dd">> ELSE <<>>)

\* the keyword arguments of the call that logs the given event, in call order
KwKeys(event) ==
    CASE event = "service_initializing" -> <<"strategies">>
      [] event = "processing_document" -> <<"document_id", "strategy">>
      [] event = "rendered_pages" -> <<"pages", "slow", "duration_ms">>
      [] event = "extracted_content" -> <<"tokens", "slow", "duration_ms">>
      [] OTHER -> <<>>

\* C15: every printed record is the serializer's output and nothing else; its
\* members are the call's keyword arguments followed by the keys the chain
\* set, in the order event, log level, logger name, timestamp, runtime
\* context, trace identifiers (the last when a span is active), all of them
\* inside the serialized body and nothing else in it.
C15_PipelineOrder ==
    \A e \in Emitters :
        \A i \in At(e, "log") :
            LET line == stdout[e][events[e][i].n]
            IN /\ DOMAIN line = {"json", "keys"}
               /\ line.keys = KwKeys(line.json.event) \o ChainKeys(ActiveAt(e, i) # None)
               /\ Range(line.keys) = DOMAIN line.json
               /\ line.json.level = "info"
               /\ line.json.timestamp = "iso"

\* C15 witness: the container has printed a record outside any span and an
\* invocation has printed one under a span
C15_Witness ==
    /\ \E n \in 1..Len(stdout[Hook]) : "dd" \notin DOMAIN stdout[Hook][n].json
    /\ \E t \in Tasks :
           \E n \in 1..Len(stdout[t]) : stdout[t][n].keys[Len(stdout[t][n].keys)] = "dd"

\* the span held in local variable var of invocation t was closed without an error
ClosedClean(t, var) ==
    /\ frame[t][var] \in DOMAIN spans
    /\ spans[frame[t][var]].finished
    /\ spans[frame[t][var]].error = 0

\* C16: the root span of an invocation is named document.process with type
\* serverless; once the invocation has logged a record or opened a child
\* span, the root carries the tags document_id, strategy and
\* span.kind = server, whatever happens afterwards; the root carries the
\* metric total_pages only with the value 10 and only when both child spans
\* were closed without an error and nothing was raised in either stage.
C16_RootSpan ==
    \A t \in Tasks :
        frame[t].root \in DOMAIN spans =>
            LET r == spans[frame[t].root]
            IN /\ r.name = "document.process"
               /\ r.span_type = "serverless"
               /\ r.parent = None
               /\ (At(t, "log") # {} \/ Cardinality(OpenedBy(t)) > 1) =>
                     /\ Tagged(t, "root", "document_id", frame[t].document_id)
                     /\ Tagged(t, "root", "strategy", frame[t].strategy)
                     /\ Tagged(t, "root", "span.kind", "server")
               /\ "total_pages" \in DOMAIN r.metrics =>
                     /\ r.metrics["total_pages"] = 10
                     /\ ClosedClean(t, "render_span")
                     /\ ClosedClean(t, "llm_span")
                     /\ ThrownAt(t, 169..185) = {}

\* C16 witness: one invocation failed in its extraction stage and its root
\* keeps the three tags but has no total_pages; another has total_pages
C16_Witness ==
    /\ \E t \in Tasks :
          /\ Done(t)
          /\ [type |-> "WorkError", at |-> 184] \in Thrown(t)
          /\ Tagged(t, "root", "document_id", frame[t].document_id)
          /\ Tagged(t, "root", "span.kind", "server")
          /\ "total_pages" \notin DOMAIN spans[frame[t].root].metrics
    /\ \E u \in Tasks :
          /\ frame[u].root \in DOMAIN spans
          /\ "total_pages" \in DOMAIN spans[frame[u].root].metrics

\* the child spans of invocation t: the spans it opened under another span of its own
Children(t) == {id \in OpenedBy(t) : spans[id].parent \in OpenedBy(t)}

\* the child spans of t that are open just after position i of t's history
OpenChildren(t, i) ==
    {id \in Children(t) :
        /\ \E o \in Opened(t, id) : o <= i
        /\ \A c \in Closed(t, id) : c > i}

\* C17: in one invocation every document.render_pages span is closed before
\* any document.llm_extract span is opened, at no point of the invocation
\* are two child spans open, and an invocation in which something was raised
\* in the render stage (the delay's failure and cancellation included), or
\* which is still in that stage, has no document.llm_extract span.
C17_StagesSequential ==
    \A t \in Tasks :
        /\ \A x \in SpanNamed(t, "document.llm_extract") :
              /\ SpanNamed(t, "document.render_pages") # {}
              /\ \A r \in SpanNamed(t, "document.render_pages") :
                    \A o \in Opened(t, x) : \E c \in Closed(t, r) : c < o
        /\ \A i \in 1..Len(events[t]) : Cardinality(OpenChildren(t, i)) <= 1
        /\ (ThrownAt(t, 169..175) # {} \/ pc[t] = "render_sleep") =>
              SpanNamed(t, "document.llm_extract") = {}
        /\ Cardinality(SpanNamed(t, "document.render_pages")) <= 1
        /\ Cardinality(SpanNamed(t, "document.llm_extract")) <= 1

\* C17 witness: one invocation went through both stages, another was
\* cancelled during the render delay and opened no extraction span
C17_Witness ==
    /\ \E t \in Tasks :
          /\ SpanNamed(t, "document.llm_extract") # {}
          /\ \A x \in SpanNamed(t, "document.llm_extract") : spans[x].finished
    /\ \E u \in Tasks :
          /\ Done(u)
          /\ [type |-> "CancelledError", at |-> 174] \in Thrown(u)
          /\ SpanNamed(u, "document.render_pages") # {}
          /\ SpanNamed(u, "document.llm_extract") = {}

\* C18: when finish raised the error of the tracer's shutdown, the shutdown
\* did not complete, no tracer_shutdown_complete record exists, and the
\* modal.exit span is closed without an error with its service_shutting_down
\* record emitted inside it; and when the container has stopped with the
\* shutdown not completed although nothing was raised before it, finish
\* raised that error: it is not swallowed.
C18_ShutdownFailureSurfaces ==
    phase = "stopped" =>
        /\ outcome[Hook] = [kind |-> "raised",
                            exc |-> [type |-> "InstrumentationError", at |-> 208]] =>
              /\ At(Hook, "shutdown") = {}
              /\ LogAt(Hook, "tracer_shutdown_complete") = {}
              /\ writer.running
              /\ \E x \in SpanNamed(Hook, "modal.exit") :
                    /\ spans[x].finished
                    /\ spans[x].error = 0
                    /\ \E l \in LogAt(Hook, "service_shutting_down"), c \in Closed(Hook, x) :
                          l < c
        /\ (At(Hook, "shutdown") = {} /\ ThrownAt(Hook, 206..207) = {}) =>
              outcome[Hook] = [kind |-> "raised",
                               exc |-> [type |-> "InstrumentationError", at |-> 208]]

\* C18 witness: the container stopped with the shutdown's error raised out of finish
C18_Witness ==
    /\ phase = "stopped"
    /\ outcome[Hook].kind = "raised"
    /\ outcome[Hook].exc.at = 208
    /\ At(Hook, "shutdown") = {}
    /\ LogAt(Hook, "service_shutting_down") # {}

\* C19: at every call of tracer.flush by an invocation, each span the
\* invocation opened was opened and closed before the call, whether the
\* invocation returns or raises; when that flush did not raise, the writer
\* has sent all of the invocation's spans; and control goes back to the
\* caller only after the flush was called.
C19_FlushAfterAllClosed ==
    \A t \in Tasks :
        /\ \A f \in At(t, "flush") :
              \A id \in OpenedBy(t) :
                  /\ \A o \in Opened(t, id) : o < f
                  /\ \E c \in Closed(t, id) : c < f
        /\ \A l \in At(t, "leave") : \E f \in At(t, "flush") : f < l
        /\ (Done(t) /\ ThrownAt(t, {201}) = {}) =>
              /\ OpenedBy(t) \subseteq writer.sent
              /\ \A id \in OpenedBy(t) : spans[id].finished
        /\ outcome[t].kind = "returned" =>
              /\ At(t, "flush") # {}
              /\ Cardinality(OpenedBy(t)) = 3

\* C19 witness: one invocation returned its result and another raised, each
\* after a flush with spans of its own to send
C19_Witness ==
    /\ \E t \in Tasks :
          /\ outcome[t].kind = "returned"
          /\ Cardinality(OpenedBy(t)) = 3
          /\ OpenedBy(t) \subseteq writer.sent
    /\ \E u \in Tasks :
          /\ outcome[u].kind = "raised"
          /\ outcome[u].exc.type = "WorkError"
          /\ Cardinality(OpenedBy(u)) = 2
          /\ OpenedBy(u) \subseteq writer.sent

\* the event names of the records emitter e printed, in order
EventNames(e) == [n \in 1..Len(stdout[e]) |-> stdout[e][n].json.event]

\* C20: an invocation that returned its result printed exactly four records,
\* processing_document, rendered_pages, extracted_content and
\* document_processed_successfully in this order; each carries the trace
\* identifier of the invocation's root span; the first and the last carry
\* the root's span identifier, the second the render span's and the third
\* the extraction span's.
C20_FourRecords ==
    \A t \in Tasks :
        outcome[t].kind = "returned" =>
            /\ EventNames(t) = <<"processing_document", "rendered_pages",
                                 "extracted_content", "document_processed_successfully">>
            /\ \A n \in 1..Len(stdout[t]) :
                  /\ "dd" \in DOMAIN stdout[t][n].json
                  /\ stdout[t][n].json.dd.trace_id = str(spans[frame[t].root].trace_id)
            /\ stdout[t][1].json.dd.span_id = str(spans[frame[t].root].span_id)
            /\ stdout[t][2].json.dd.span_id = str(spans[frame[t].render_span].span_id)
            /\ stdout[t][3].json.dd.span_id = str(spans[frame[t].llm_span].span_id)
            /\ stdout[t][4].json.dd.span_id = str(spans[frame[t].root].span_id)
            /\ Cardinality({frame[t].root, frame[t].render_span, frame[t].llm_span}) = 3
            /\ spans[frame[t].render_span].parent = frame[t].root
            /\ spans[frame[t].llm_span].parent = frame[t].root

\* C20 witness: two invocations returned, each with its four records and a trace of its own
C20_Witness ==
    /\ \A t \in Tasks : outcome[t].kind = "returned" /\ Len(stdout[t]) = 4
    /\ \E t, u \in Tasks :
          /\ t # u
          /\ stdout[t][1].json.dd.trace_id # stdout[u][1].json.dd.trace_id
====
